---- MODULE Spec2Model ----
(***************************************************************************)
(* Model of the wellness analysis engine (src/app/wellness_engine.py):     *)
(* analyze_sleep, detect_sedentary, score_hrv and compute_burnout applied  *)
(* to a sequence of raw sensor records.                                    *)
(*                                                                         *)
(* Numbers.  Python floats are modelled by exact rationals <<n, d>> with   *)
(* d > 0 in lowest terms.  A result field that the code passes through     *)
(* round(x, 1) holds the rounded value as an integer number of tenths      *)
(* (sleep_score 30 is 300), total_duration_hours (round(x, 2)) as an       *)
(* integer number of hundredths.                                           *)
(* round() is modelled on the exact value, half to even.  A binary float   *)
(* that stands for a decimal exactly halfway between two tenths (87.55)    *)
(* may round either way in Python; no property below rests on such a       *)
(* value.                                                                  *)
(*                                                                         *)
(* Raw values.  A raw record is a function from the keys it has to tagged  *)
(* values: a number, a string, a boolean or null (JSON values).            *)
(***************************************************************************)
EXTENDS Integers, Sequences, FiniteSets, TLC

VARIABLES sensor_data, now, response, earlier, requests

vars == <<sensor_data, now, response, earlier, requests>>

(***************************************************************************)
(* Exact rational arithmetic                                               *)
(***************************************************************************)
Abs(a) == IF a < 0 THEN -a ELSE a

RECURSIVE Gcd(_, _)
Gcd(a, b) == IF b = 0 THEN a ELSE Gcd(b, a % b)

Rat(n, d) ==
    LET g == Gcd(Abs(n), d)
    IN  IF n = 0 THEN <<0, 1>> ELSE <<n \div g, d \div g>>

Q(n) == <<n, 1>>

RAdd(x, y) == Rat(x[1] * y[2] + y[1] * x[2], x[2] * y[2])

RSub(x, y) == Rat(x[1] * y[2] - y[1] * x[2], x[2] * y[2])

RMul(x, y) == Rat(x[1] * y[1], x[2] * y[2])

\* x / k for an integer k > 0
RDivInt(x, k) == Rat(x[1], x[2] * k)

RLt(x, y) == x[1] * y[2] < y[1] * x[2]

RLe(x, y) == x[1] * y[2] <= y[1] * x[2]

RMax(x, y) == IF RLt(x, y) THEN y ELSE x

\* round(x, digits) as the integer number of 1/scale units (scale = 10^digits);
\* a value exactly half way between two units goes to the even one
RoundTo(x, scale) ==
    LET num == x[1] * scale
        q   == num \div x[2]
        rem == num - q * x[2]
    IN  IF 2 * rem < x[2] THEN q
        ELSE IF 2 * rem > x[2] THEN q + 1
        ELSE IF q % 2 = 0 THEN q ELSE q + 1

Round1(x) == RoundTo(x, 10)

Round2(x) == RoundTo(x, 100)

\* the rational value of a rounded field given in tenths
Tenths(t) == Rat(t, 10)

(***************************************************************************)
(* Raw JSON values and Python's conversions of them                        *)
(***************************************************************************)
Num(n) == [t |-> "num", q |-> Q(n), s |-> ""]

Dec(n, d) == [t |-> "num", q |-> Rat(n, d), s |-> ""]

Str(s) == [t |-> "str", q |-> Q(0), s |-> s]

Bool(b) == [t |-> "bool", q |-> Q(IF b THEN 1 ELSE 0), s |-> ""]

Null == [t |-> "null", q |-> Q(0), s |-> ""]

\* record.get(key, default)
Get(record, key, default) == IF key \in DOMAIN record THEN record[key] ELSE default

\* float(v): the value, or the exception it raises
NumericStrings == {"0", "55", "72"}

ParseFloat(s) == CASE s = "0" -> Q(0) [] s = "55" -> Q(55) [] s = "72" -> Q(72)

Float(v) ==
    CASE v.t = "num"  -> [ok |-> TRUE, q |-> v.q, exc |-> ""]
      [] v.t = "bool" -> [ok |-> TRUE, q |-> v.q, exc |-> ""]
      [] v.t = "str"  -> IF v.s \in NumericStrings
                         THEN [ok |-> TRUE, q |-> ParseFloat(v.s), exc |-> ""]
                         ELSE [ok |-> FALSE, q |-> Q(0), exc |-> "ValueError"]
      [] v.t = "null" -> [ok |-> FALSE, q |-> Q(0), exc |-> "TypeError"]

\* str(n) for a natural number n
Digit(d) == CASE d = 0 -> "0" [] d = 1 -> "1" [] d = 2 -> "2" [] d = 3 -> "3"
              [] d = 4 -> "4" [] d = 5 -> "5" [] d = 6 -> "6" [] d = 7 -> "7"
              [] d = 8 -> "8" [] d = 9 -> "9"

RECURSIVE NatStr(_)
NatStr(n) == IF n < 10 THEN Digit(n) ELSE NatStr(n \div 10) \o Digit(n % 10)

\* str(v)
PyStr(v) ==
    CASE v.t = "str"  -> v.s
      [] v.t = "bool" -> IF v.q = Q(1) THEN "True" ELSE "False"
      [] v.t = "null" -> "None"
      [] v.t = "num"  -> IF v.q[2] = 1 /\ v.q[1] >= 0 THEN NatStr(v.q[1]) ELSE "<float>"

\* s.upper(), on the strings str(v) produces here
Upper(s) ==
    CASE s = "yes"   -> "YES"
      [] s = "Yes"   -> "YES"
      [] s = "no"    -> "NO"
      [] s = "No"    -> "NO"
      [] s = "True"  -> "TRUE"
      [] s = "False" -> "FALSE"
      [] s = "None"  -> "NONE"
      [] s = "<float>" -> "<FLOAT>"
      [] OTHER       -> s

(***************************************************************************)
(* Normalisation of one raw record (the field reads of the four loops)     *)
(***************************************************************************)
HrOf(record) == Float(Get(record, "HR", Get(record, "heartRate", Num(0))))

RmssdOf(record) == Float(Get(record, "RMSSD", Get(record, "rmssd", Num(0))))

LuxOf(record) == Float(Get(record, "Lux", Get(record, "lux", Num(0))))

TempOf(record) == Float(Get(record, "Temp", Get(record, "temperature", Num(0))))

MotionOf(record) == Upper(PyStr(Get(record, "Motion", Get(record, "motion", Str("NO")))))

TimestampOf(record) == Get(record, "timestamp", Str(""))

\* the exception of the first conversion that fails, "" if none does
FirstExc(convs) ==
    IF \A i \in 1..Len(convs) : convs[i].ok THEN ""
    ELSE convs[CHOOSE i \in 1..Len(convs) :
                 ~convs[i].ok /\ \A j \in 1..(i - 1) : convs[j].ok].exc

\* the exception raised while normalising the sequence, "" if none
RaisedIn(normalized_data) ==
    IF \A i \in 1..Len(normalized_data) : normalized_data[i].exc = "" THEN ""
    ELSE normalized_data[CHOOSE i \in 1..Len(normalized_data) :
                           normalized_data[i].exc # ""
                           /\ \A j \in 1..(i - 1) : normalized_data[j].exc = ""].exc

Raise(exc) == [raised |-> exc]

Raised(result) == "raised" \in DOMAIN result

\* mean of the strictly positive values, the divisor being max(1, count)
\* sum(xs[lo..hi]); the range is split in halves to keep the evaluation shallow
RECURSIVE SumRange(_, _, _)
SumRange(xs, lo, hi) ==
    IF lo > hi THEN Q(0)
    ELSE IF lo = hi THEN xs[lo]
    ELSE LET mid == (lo + hi) \div 2
         IN  RAdd(SumRange(xs, lo, mid), SumRange(xs, mid + 1, hi))

SumSeq(xs) == SumRange(xs, 1, Len(xs))

Max1(n) == IF n < 1 THEN 1 ELSE n

\* PositiveOf keeping the zeros
NonNegativeOf(xs) == SelectSeq(xs, LAMBDA x : RLe(Q(0), x))

PositiveOf(xs) == SelectSeq(xs, LAMBDA x : RLt(Q(0), x))

MeanPositive(xs) == RDivInt(SumSeq(PositiveOf(xs)), Max1(Len(PositiveOf(xs))))

(***************************************************************************)
(* analyze_sleep                                                           *)
(***************************************************************************)
NormalizeSleep(record) ==
    LET hr    == HrOf(record)
        rmssd == RmssdOf(record)
        lux   == LuxOf(record)
        temp  == TempOf(record)
    IN  [exc       |-> FirstExc(<<hr, rmssd, lux, temp>>),
         hr        |-> hr.q,
         rmssd     |-> rmssd.q,
         lux       |-> lux.q,
         temp      |-> temp.q,
         motion    |-> MotionOf(record),
         timestamp |-> TimestampOf(record)]

SleepHrFactor == Rat(85, 100)

DarkLux == 10

\* is_sleeping with the heart rate compared to the average itself
IsSleepingBelowAverage(record, avg_hr) ==
    /\ record.motion = "NO"
    /\ RLt(record.lux, Q(DarkLux))
    /\ (RLe(record.hr, avg_hr) \/ record.hr = Q(0))

\* is_sleeping without the test of the light
IsSleepingInAnyLight(record, avg_hr) ==
    /\ record.motion = "NO"
    /\ (RLt(record.hr, RMul(avg_hr, SleepHrFactor)) \/ record.hr = Q(0))

\* is_sleeping of analyze_sleep
IsSleeping(record, avg_hr) ==
    /\ record.motion = "NO"
    /\ RLt(record.lux, Q(DarkLux))
    /\ (RLt(record.hr, RMul(avg_hr, SleepHrFactor)) \/ record.hr = Q(0))

MinSleepReadings == 3

None == -1

ClosePeriod(periods, start, end, records) ==
    Append(periods, [start_idx |-> start, end_idx |-> end, records |-> records])

\* one iteration of the loop over enumerate(normalized_data)
SleepStep(state, i, record, avg_hr) ==
    IF IsSleeping(record, avg_hr)
    THEN [current_sleep_start   |-> IF state.current_sleep_start = None THEN i
                                    ELSE state.current_sleep_start,
          current_sleep_records |-> Append(state.current_sleep_records, record),
          sleep_periods         |-> state.sleep_periods]
    ELSE [current_sleep_start   |-> None,
          current_sleep_records |-> <<>>,
          sleep_periods         |->
              IF state.current_sleep_start # None
                 /\ Len(state.current_sleep_records) >= MinSleepReadings
              THEN ClosePeriod(state.sleep_periods, state.current_sleep_start, i - 1,
                               state.current_sleep_records)
              ELSE state.sleep_periods]

\* the iterations lo..hi of the loop, in order, from the loop state `state`.  The
\* range is split in halves to keep the evaluation shallow; the test on the state
\* after the first half holds of every loop state and only makes the evaluator
\* compute that state before it enters the second half.
RECURSIVE SleepLoop(_, _, _, _, _)
SleepLoop(normalized_data, avg_hr, state, lo, hi) ==
    IF lo > hi THEN state
    ELSE IF lo = hi THEN SleepStep(state, lo, normalized_data[lo + 1], avg_hr)
    ELSE LET mid  == (lo + hi) \div 2
             left == SleepLoop(normalized_data, avg_hr, state, lo, mid)
         IN  IF left.current_sleep_start <= mid
             THEN SleepLoop(normalized_data, avg_hr, left, mid + 1, hi)
             ELSE left

\* SleepPeriods without the handling of the period still open at the end
SleepPeriodsLosingOpenRun(normalized_data) ==
    LET avg_hr == MeanPositive([i \in 1..Len(normalized_data) |-> normalized_data[i].hr])
    IN  SleepLoop(normalized_data, avg_hr,
                  [current_sleep_start   |-> None,
                   current_sleep_records |-> <<>>,
                   sleep_periods         |-> <<>>],
                  0, Len(normalized_data) - 1).sleep_periods

\* the loop, then the handling of the period still open when the sequence ends
SleepPeriods(normalized_data) ==
    LET avg_hr == MeanPositive([i \in 1..Len(normalized_data) |-> normalized_data[i].hr])
        final  == SleepLoop(normalized_data, avg_hr,
                            [current_sleep_start   |-> None,
                             current_sleep_records |-> <<>>,
                             sleep_periods         |-> <<>>],
                            0, Len(normalized_data) - 1)
    IN  IF final.current_sleep_start # None
           /\ Len(final.current_sleep_records) >= MinSleepReadings
        THEN ClosePeriod(final.sleep_periods, final.current_sleep_start,
                         Len(normalized_data) - 1, final.current_sleep_records)
        ELSE final.sleep_periods

\* LongestPeriod with ties going to the last period of maximal length
LastLongestPeriod(sleep_periods) ==
    sleep_periods[CHOOSE k \in 1..Len(sleep_periods) :
        /\ \A j \in 1..Len(sleep_periods) :
               Len(sleep_periods[j].records) <= Len(sleep_periods[k].records)
        /\ \A j \in (k + 1)..Len(sleep_periods) :
               Len(sleep_periods[j].records) < Len(sleep_periods[k].records)]

\* max(sleep_periods, key=len(records)): the first period of maximal length
LongestPeriod(sleep_periods) ==
    sleep_periods[CHOOSE k \in 1..Len(sleep_periods) :
        /\ \A j \in 1..Len(sleep_periods) :
               Len(sleep_periods[j].records) <= Len(sleep_periods[k].records)
        /\ \A j \in 1..(k - 1) :
               Len(sleep_periods[j].records) < Len(sleep_periods[k].records)]

\* DurationScore without the floor of 20
DurationScoreNoFloor(sleep_duration_hours) ==
    LET h == sleep_duration_hours
    IN  IF RLe(Q(7), h) /\ RLe(h, Q(9)) THEN Q(100)
        ELSE IF (RLe(Q(6), h) /\ RLt(h, Q(7))) \/ (RLt(Q(9), h) /\ RLe(h, Q(10)))
        THEN Q(80)
        ELSE IF RLt(h, Q(6))
        THEN RSub(Q(60), RMul(RSub(Q(6), h), Q(15)))
        ELSE RSub(Q(80), RMul(RSub(h, Q(9)), Q(10)))

DurationScore(sleep_duration_hours) ==
    LET h == sleep_duration_hours
    IN  IF RLe(Q(7), h) /\ RLe(h, Q(9)) THEN Q(100)
        ELSE IF (RLe(Q(6), h) /\ RLt(h, Q(7))) \/ (RLt(Q(9), h) /\ RLe(h, Q(10)))
        THEN Q(80)
        ELSE IF RLt(h, Q(6))
        THEN RMax(Q(20), RSub(Q(60), RMul(RSub(Q(6), h), Q(15))))
        ELSE RMax(Q(20), RSub(Q(80), RMul(RSub(h, Q(9)), Q(10))))

ConsistencyScore(records) ==
    RMul(Rat(Len(SelectSeq(records, LAMBDA r : r.motion = "NO")), Len(records)), Q(100))

EnvScore(records) ==
    LET avg_lux == RDivInt(SumSeq([i \in 1..Len(records) |-> records[i].lux]),
                           Len(records))
    IN  IF RLt(avg_lux, Q(5)) THEN Q(100)
        ELSE IF RLt(avg_lux, Q(20)) THEN Q(70)
        ELSE RMax(Q(30), RSub(Q(70), RMul(RSub(avg_lux, Q(20)), Q(2))))

HrvRecoveryScore(records) ==
    LET avg_rmssd == MeanPositive([i \in 1..Len(records) |-> records[i].rmssd])
    IN  IF RLt(Q(40), avg_rmssd) THEN Q(100)
        ELSE IF RLt(Q(20), avg_rmssd)
        THEN RAdd(Q(70), RMul(RSub(avg_rmssd, Q(20)), Rat(3, 2)))
        ELSE RMax(Q(30), RMul(avg_rmssd, Q(2)))

SleepFinalScore(duration_score, consistency_score, env_score, hrv_score) ==
    RAdd(RAdd(RMul(duration_score, Rat(35, 100)), RMul(consistency_score, Rat(25, 100))),
         RAdd(RMul(env_score, Rat(20, 100)), RMul(hrv_score, Rat(20, 100))))

SleepQuality(final_score) ==
    IF RLe(Q(75), final_score) THEN "Good"
    ELSE IF RLe(Q(50), final_score) THEN "OK"
    ELSE "Poor"

SleepEmpty ==
    [error |-> "No sensor data available", sleep_score |-> 0, sleep_quality |-> "Unknown"]

NoSleepDetected ==
    [sleep_detected       |-> FALSE,
     sleep_start          |-> Null,
     sleep_end            |-> Null,
     total_duration_hours |-> 0,
     sleep_score          |-> 300,
     sleep_quality        |-> "Poor",
     quality_factors      |-> [reason |-> "No sleep period detected in sensor data"]]

\* SleepScored with the current time as the end of the sleep period
SleepScoredEndingNow(longest_period, clock) ==
    LET records     == longest_period.records
        hours       == Rat(Len(records), 60)
        final_score == SleepFinalScore(DurationScore(hours), ConsistencyScore(records),
                                       EnvScore(records), HrvRecoveryScore(records))
    IN  [sleep_detected       |-> TRUE,
         sleep_start          |-> Get(records[1], "timestamp", Str("Unknown")),
         sleep_end            |-> Num(clock),
         total_duration_hours |-> Round2(hours),
         sleep_score          |-> Round1(final_score),
         sleep_quality        |-> SleepQuality(final_score),
         quality_factors      |-> [duration_score     |-> Round1(DurationScore(hours)),
                                   consistency_score  |-> Round1(ConsistencyScore(records)),
                                   environment_score  |-> Round1(EnvScore(records)),
                                   hrv_recovery_score |-> Round1(HrvRecoveryScore(records))],
         current_time         |-> clock]

SleepScored(longest_period, clock) ==
    LET records              == longest_period.records
        sleep_duration_hours == Rat(Len(records), 60)
        duration_score       == DurationScore(sleep_duration_hours)
        consistency_score    == ConsistencyScore(records)
        env_score            == EnvScore(records)
        hrv_score            == HrvRecoveryScore(records)
        final_score          == SleepFinalScore(duration_score, consistency_score,
                                                env_score, hrv_score)
    IN  [sleep_detected       |-> TRUE,
         sleep_start          |-> Get(records[1], "timestamp", Str("Unknown")),
         sleep_end            |-> Get(records[Len(records)], "timestamp", Str("Unknown")),
         total_duration_hours |-> Round2(sleep_duration_hours),
         sleep_score          |-> Round1(final_score),
         sleep_quality        |-> SleepQuality(final_score),
         quality_factors      |-> [duration_score     |-> Round1(duration_score),
                                   consistency_score  |-> Round1(consistency_score),
                                   environment_score  |-> Round1(env_score),
                                   hrv_recovery_score |-> Round1(hrv_score)],
         current_time         |-> clock]

analyze_sleep(data, clock) ==
    IF data = <<>> THEN SleepEmpty
    ELSE LET normalized_data == [i \in 1..Len(data) |-> NormalizeSleep(data[i])]
             sleep_periods   == SleepPeriods(normalized_data)
         IN  IF RaisedIn(normalized_data) # "" THEN Raise(RaisedIn(normalized_data))
             ELSE IF sleep_periods = <<>> THEN NoSleepDetected
             ELSE SleepScored(LongestPeriod(sleep_periods), clock)

(***************************************************************************)
(* detect_sedentary                                                        *)
(***************************************************************************)
NormalizeSedentary(record) ==
    LET hr  == HrOf(record)
        lux == LuxOf(record)
    IN  [exc       |-> FirstExc(<<hr, lux>>),
         hr        |-> hr.q,
         lux       |-> lux.q,
         motion    |-> MotionOf(record),
         timestamp |-> TimestampOf(record)]

\* is_sleeping of detect_sedentary
SedIsSleeping(record, avg_hr) ==
    /\ record.motion = "NO"
    /\ RLt(record.lux, Q(10))
    /\ (RLt(record.hr, RMul(avg_hr, Rat(85, 100))) \/ record.hr = Q(0))

\* sleep_indices, 0-based as enumerate gives them
SleepIndices(normalized_data) ==
    LET avg_hr == MeanPositive([i \in 1..Len(normalized_data) |-> normalized_data[i].hr])
    IN  {i \in 0..(Len(normalized_data) - 1) : SedIsSleeping(normalized_data[i + 1], avg_hr)}

\* is_sedentary without the test of the light
IsSedentaryInAnyLight(record) == record.motion = "NO"

IsSedentary(record) == record.motion = "NO" /\ RLe(Q(10), record.lux)

MinSedentaryReadings == 5

CloseSedentary(periods, start, end, count) ==
    Append(periods, [start_idx |-> start, end_idx |-> end, duration_minutes |-> count])

\* SedentaryStep with a sleeping index counted into the run instead of ending it
SedentaryStepCountingSleep(state, i, record, sleep_indices) ==
    IF i \in sleep_indices \/ IsSedentary(record)
    THEN [current_sedentary_start |-> IF state.current_sedentary_start = None THEN i
                                      ELSE state.current_sedentary_start,
          current_sedentary_count |-> state.current_sedentary_count + 1,
          sedentary_periods       |-> state.sedentary_periods]
    ELSE [current_sedentary_start |-> None,
          current_sedentary_count |-> 0,
          sedentary_periods       |->
              IF state.current_sedentary_start # None
                 /\ state.current_sedentary_count >= MinSedentaryReadings
              THEN CloseSedentary(state.sedentary_periods,
                                  state.current_sedentary_start, i - 1,
                                  state.current_sedentary_count)
              ELSE state.sedentary_periods]

\* one iteration of the loop over enumerate(normalized_data)
SedentaryStep(state, i, record, sleep_indices) ==
    LET closed == IF state.current_sedentary_start # None
                     /\ state.current_sedentary_count >= MinSedentaryReadings
                  THEN CloseSedentary(state.sedentary_periods,
                                      state.current_sedentary_start, i - 1,
                                      state.current_sedentary_count)
                  ELSE state.sedentary_periods
        reset  == [current_sedentary_start |-> None,
                   current_sedentary_count |-> 0,
                   sedentary_periods       |-> closed]
    IN  IF i \in sleep_indices THEN reset
        ELSE IF IsSedentary(record)
        THEN [current_sedentary_start |-> IF state.current_sedentary_start = None THEN i
                                          ELSE state.current_sedentary_start,
              current_sedentary_count |-> state.current_sedentary_count + 1,
              sedentary_periods       |-> state.sedentary_periods]
        ELSE reset

\* the iterations lo..hi of the loop, in order, from the loop state `state`
\* (halved and tested as in SleepLoop)
RECURSIVE SedentaryLoop(_, _, _, _, _)
SedentaryLoop(normalized_data, sleep_indices, state, lo, hi) ==
    IF lo > hi THEN state
    ELSE IF lo = hi
    THEN SedentaryStep(state, lo, normalized_data[lo + 1], sleep_indices)
    ELSE LET mid  == (lo + hi) \div 2
             left == SedentaryLoop(normalized_data, sleep_indices, state, lo, mid)
         IN  IF left.current_sedentary_start <= mid
             THEN SedentaryLoop(normalized_data, sleep_indices, left, mid + 1, hi)
             ELSE left

\* SedentaryPeriods without the handling of the period still open at the end
SedentaryPeriodsLosingOpenRun(normalized_data, sleep_indices) ==
    SedentaryLoop(normalized_data, sleep_indices,
                  [current_sedentary_start |-> None,
                   current_sedentary_count |-> 0,
                   sedentary_periods       |-> <<>>],
                  0, Len(normalized_data) - 1).sedentary_periods

\* the loop, then the handling of the period still open when the sequence ends
SedentaryPeriods(normalized_data, sleep_indices) ==
    LET final == SedentaryLoop(normalized_data, sleep_indices,
                               [current_sedentary_start |-> None,
                                current_sedentary_count |-> 0,
                                sedentary_periods       |-> <<>>],
                               0, Len(normalized_data) - 1)
    IN  IF final.current_sedentary_start # None
           /\ final.current_sedentary_count >= MinSedentaryReadings
        THEN CloseSedentary(final.sedentary_periods, final.current_sedentary_start,
                            Len(normalized_data) - 1, final.current_sedentary_count)
        ELSE final.sedentary_periods

\* sum(p["duration_minutes"] for p in periods[lo..hi])
RECURSIVE SumMinutes(_, _, _)
SumMinutes(periods, lo, hi) ==
    IF lo > hi THEN 0
    ELSE IF lo = hi THEN periods[lo].duration_minutes
    ELSE LET mid == (lo + hi) \div 2
         IN  SumMinutes(periods, lo, mid) + SumMinutes(periods, mid + 1, hi)

\* max((p["duration_minutes"] for p in periods), default=0)
MaxMinutes(periods) ==
    IF periods = <<>> THEN 0
    ELSE periods[CHOOSE k \in 1..Len(periods) :
                   \A j \in 1..Len(periods) :
                       periods[j].duration_minutes <= periods[k].duration_minutes
                ].duration_minutes

\* SedentaryStatus with "sedentary" only for a last reading with lux >= 10
SedentaryStatusByLight(normalized_data, sleep_indices) ==
    LET last_idx    == Len(normalized_data) - 1
        last_record == normalized_data[Len(normalized_data)]
    IN  IF last_idx \in sleep_indices THEN "sleeping"
        ELSE IF last_record.motion = "YES" \/ RLt(last_record.lux, Q(10)) THEN "active"
        ELSE "sedentary"

SedentaryStatus(normalized_data, sleep_indices) ==
    LET last_idx    == Len(normalized_data) - 1
        last_record == normalized_data[Len(normalized_data)]
    IN  IF last_idx \in sleep_indices THEN "sleeping"
        ELSE IF last_record.motion = "YES" THEN "active"
        ELSE "sedentary"

BreakMinutes == 60

SedentaryEmpty == [error |-> "No sensor data available", sedentary_status |-> "unknown"]

detect_sedentary(data, clock) ==
    IF data = <<>> THEN SedentaryEmpty
    ELSE LET normalized_data  == [i \in 1..Len(data) |-> NormalizeSedentary(data[i])]
             sleep_indices    == SleepIndices(normalized_data)
             sedentary_periods == SedentaryPeriods(normalized_data, sleep_indices)
             total_sedentary_minutes == SumMinutes(sedentary_periods, 1, Len(sedentary_periods))
         IN  IF RaisedIn(normalized_data) # "" THEN Raise(RaisedIn(normalized_data))
             ELSE [sedentary_duration_minutes       |-> Round1(Q(total_sedentary_minutes)),
                   sedentary_status                 |->
                       SedentaryStatus(normalized_data, sleep_indices),
                   longest_sedentary_period_minutes |->
                       Round1(Q(MaxMinutes(sedentary_periods))),
                   sedentary_periods_count          |-> Len(sedentary_periods),
                   recommendation                   |->
                       IF total_sedentary_minutes > BreakMinutes
                       THEN "Take a 5-minute break every hour"
                       ELSE "Good activity level",
                   current_time                     |-> clock]

(***************************************************************************)
(* score_hrv                                                               *)
(***************************************************************************)
NormalizeHrv(record) ==
    LET hr    == HrOf(record)
        rmssd == RmssdOf(record)
    IN  [exc |-> FirstExc(<<hr, rmssd>>), hr |-> hr.q, rmssd |-> rmssd.q]

\* HrvPrimary with the heart-rate estimate used for every avg_rmssd below 20
HrvPrimaryByHrBelow20(avg_rmssd, avg_hr) ==
    IF RLe(Q(60), avg_rmssd) THEN [hrv_score |-> Q(95), stress_level |-> "low"]
    ELSE IF RLe(Q(40), avg_rmssd)
    THEN [hrv_score    |-> RAdd(Q(70), RMul(RSub(avg_rmssd, Q(40)), Rat(125, 100))),
          stress_level |-> "low"]
    ELSE IF RLe(Q(20), avg_rmssd)
    THEN [hrv_score    |-> RAdd(Q(40), RMul(RSub(avg_rmssd, Q(20)), Rat(15, 10))),
          stress_level |-> "medium"]
    ELSE IF RLt(avg_hr, Q(70)) THEN [hrv_score |-> Q(70), stress_level |-> "low"]
    ELSE IF RLt(avg_hr, Q(85)) THEN [hrv_score |-> Q(50), stress_level |-> "medium"]
    ELSE [hrv_score |-> Q(30), stress_level |-> "high"]

\* HrvPrimary with the score of the band from 40 left at its base of 70
HrvPrimaryFlat(avg_rmssd, avg_hr) ==
    IF RLe(Q(60), avg_rmssd) THEN [hrv_score |-> Q(95), stress_level |-> "low"]
    ELSE IF RLe(Q(40), avg_rmssd) THEN [hrv_score |-> Q(70), stress_level |-> "low"]
    ELSE IF RLe(Q(20), avg_rmssd)
    THEN [hrv_score    |-> RAdd(Q(40), RMul(RSub(avg_rmssd, Q(20)), Rat(15, 10))),
          stress_level |-> "medium"]
    ELSE IF RLt(Q(0), avg_rmssd)
    THEN [hrv_score |-> RAdd(Q(20), avg_rmssd), stress_level |-> "high"]
    ELSE IF RLt(avg_hr, Q(70)) THEN [hrv_score |-> Q(70), stress_level |-> "low"]
    ELSE IF RLt(avg_hr, Q(85)) THEN [hrv_score |-> Q(50), stress_level |-> "medium"]
    ELSE [hrv_score |-> Q(30), stress_level |-> "high"]

\* the primary score and tier, from avg_rmssd or else from avg_hr
HrvPrimary(avg_rmssd, avg_hr) ==
    IF RLe(Q(60), avg_rmssd) THEN [hrv_score |-> Q(95), stress_level |-> "low"]
    ELSE IF RLe(Q(40), avg_rmssd)
    THEN [hrv_score    |-> RAdd(Q(70), RMul(RSub(avg_rmssd, Q(40)), Rat(125, 100))),
          stress_level |-> "low"]
    ELSE IF RLe(Q(20), avg_rmssd)
    THEN [hrv_score    |-> RAdd(Q(40), RMul(RSub(avg_rmssd, Q(20)), Rat(15, 10))),
          stress_level |-> "medium"]
    ELSE IF RLt(Q(0), avg_rmssd)
    THEN [hrv_score |-> RAdd(Q(20), avg_rmssd), stress_level |-> "high"]
    ELSE IF RLt(avg_hr, Q(70)) THEN [hrv_score |-> Q(70), stress_level |-> "low"]
    ELSE IF RLt(avg_hr, Q(85)) THEN [hrv_score |-> Q(50), stress_level |-> "medium"]
    ELSE [hrv_score |-> Q(30), stress_level |-> "high"]

\* population variance of hr_values (hr_std is its square root)
HrVariance(hr_values, avg_hr) ==
    RDivInt(SumSeq([i \in 1..Len(hr_values) |->
                       RMul(RSub(hr_values[i], avg_hr), RSub(hr_values[i], avg_hr))]),
            Len(hr_values))

StdLimit == 15

\* StdPenalty from a standard deviation of 15 on
StdPenaltyFromLimit(hr_values, avg_hr) ==
    Len(hr_values) > 1 /\ RLe(Q(StdLimit * StdLimit), HrVariance(hr_values, avg_hr))

\* hr_std > 15
StdPenalty(hr_values, avg_hr) ==
    Len(hr_values) > 1 /\ RLt(Q(StdLimit * StdLimit), HrVariance(hr_values, avg_hr))

HrvAdjusted(primary, penalty) ==
    IF penalty
    THEN [hrv_score    |-> RMax(Q(20), RSub(primary.hrv_score, Q(15))),
          stress_level |-> IF primary.stress_level # "low" THEN "high" ELSE "medium"]
    ELSE primary

\* the least t in lo..hi with 100 v <= (t + 1/2)^2
RECURSIVE SqrtSearch(_, _, _)
SqrtSearch(v, lo, hi) ==
    IF lo = hi THEN lo
    ELSE LET mid == (lo + hi) \div 2
         IN  IF RLe(RMul(v, Q(400)), Q((2 * mid + 1) * (2 * mid + 1)))
             THEN SqrtSearch(v, lo, mid)
             ELSE SqrtSearch(v, mid + 1, hi)

MaxStdTenths == 1000

\* round(v ** 0.5, 1) in tenths, for a standard deviation up to MaxStdTenths
SqrtTenths(v) ==
    LET t == SqrtSearch(v, 0, MaxStdTenths)
    IN  IF RMul(v, Q(400)) = Q((2 * t + 1) * (2 * t + 1)) /\ t % 2 = 1 THEN t + 1 ELSE t

HrvRecommendations(stress_level) ==
    IF stress_level = "high"
    THEN <<"Practice deep breathing exercises (4-7-8 technique)",
           "Take regular breaks throughout the day",
           "Consider meditation or mindfulness practice",
           "Ensure adequate sleep (7-9 hours)">>
    ELSE IF stress_level = "medium"
    THEN <<"Maintain regular physical activity",
           "Practice stress management techniques",
           "Monitor your sleep quality">>
    ELSE <<"Keep up your healthy habits",
           "Continue regular exercise routine",
           "Maintain good sleep hygiene">>

HrvEmpty == [error |-> "No sensor data available", stress_level |-> "unknown"]

HrvNoHeartRate == [error |-> "No valid heart rate data", stress_level |-> "unknown"]

\* avg_rmssd of the result is round(avg_rmssd, 1) in tenths, or None
score_hrv(data, clock) ==
    IF data = <<>> THEN HrvEmpty
    ELSE LET normalized   == [i \in 1..Len(data) |-> NormalizeHrv(data[i])]
             hr_values    == PositiveOf([i \in 1..Len(data) |-> normalized[i].hr])
             rmssd_values == PositiveOf([i \in 1..Len(data) |-> normalized[i].rmssd])
             avg_hr       == RDivInt(SumSeq(hr_values), Len(hr_values))
             avg_rmssd    == IF rmssd_values # <<>>
                             THEN RDivInt(SumSeq(rmssd_values), Len(rmssd_values))
                             ELSE Q(0)
             final        == HrvAdjusted(HrvPrimary(avg_rmssd, avg_hr),
                                         StdPenalty(hr_values, avg_hr))
         IN  IF RaisedIn(normalized) # "" THEN Raise(RaisedIn(normalized))
             ELSE IF hr_values = <<>> THEN HrvNoHeartRate
             ELSE [hrv_score      |-> Round1(final.hrv_score),
                   stress_level   |-> final.stress_level,
                   avg_heart_rate |-> Round1(avg_hr),
                   avg_rmssd      |-> IF RLt(Q(0), avg_rmssd) THEN Round1(avg_rmssd)
                                      ELSE None,
                   heart_rate_variability_std |->
                       IF Len(hr_values) > 1
                       THEN SqrtTenths(HrVariance(hr_values, avg_hr))
                       ELSE 0,
                   recommendations |-> HrvRecommendations(final.stress_level),
                   current_time    |-> clock]

(***************************************************************************)
(* compute_burnout                                                         *)
(***************************************************************************)
NormalizeEnvironment(record) ==
    LET lux  == LuxOf(record)
        temp == TempOf(record)
    IN  [exc |-> FirstExc(<<lux, temp>>), lux |-> lux.q, temp |-> temp.q]

\* SedentaryBurnout with every limit in the higher band
SedentaryBurnoutFromLimit(sedentary_minutes) ==
    IF RLe(Q(480), sedentary_minutes) THEN Q(90)
    ELSE IF RLe(Q(360), sedentary_minutes) THEN Q(70)
    ELSE IF RLe(Q(240), sedentary_minutes) THEN Q(50)
    ELSE IF RLe(Q(120), sedentary_minutes) THEN Q(30)
    ELSE Q(10)

\* the ladder on sedentary_minutes, given in tenths of a minute as detect_sedentary
\* returns them
SedentaryBurnout(sedentary_minutes) ==
    IF RLt(Q(480), sedentary_minutes) THEN Q(90)
    ELSE IF RLt(Q(360), sedentary_minutes) THEN Q(70)
    ELSE IF RLt(Q(240), sedentary_minutes) THEN Q(50)
    ELSE IF RLt(Q(120), sedentary_minutes) THEN Q(30)
    ELSE Q(10)

LightBurnout(avg_lux) ==
    IF RLe(Q(200), avg_lux) /\ RLe(avg_lux, Q(500)) THEN Q(10)
    ELSE IF (RLe(Q(100), avg_lux) /\ RLt(avg_lux, Q(200)))
            \/ (RLt(Q(500), avg_lux) /\ RLe(avg_lux, Q(1000))) THEN Q(40)
    ELSE Q(70)

TempBurnout(avg_temp) ==
    IF RLe(Q(20), avg_temp) /\ RLe(avg_temp, Q(24)) THEN Q(10)
    ELSE IF (RLe(Q(18), avg_temp) /\ RLt(avg_temp, Q(20)))
            \/ (RLt(Q(24), avg_temp) /\ RLe(avg_temp, Q(26))) THEN Q(40)
    ELSE Q(70)

EnvBurnout(normalized_data) ==
    LET n        == Len(normalized_data)
        avg_lux  == RDivInt(SumSeq([i \in 1..n |-> normalized_data[i].lux]), n)
        avg_temp == RDivInt(SumSeq([i \in 1..n |-> normalized_data[i].temp]), n)
    IN  RDivInt(RAdd(LightBurnout(avg_lux), TempBurnout(avg_temp)), 2)

\* BurnoutScore with the four components weighted equally
BurnoutScoreEvenWeights(sleep_burnout, sedentary_burnout, stress_burnout, env_burnout) ==
    RMul(RAdd(RAdd(sleep_burnout, sedentary_burnout), RAdd(stress_burnout, env_burnout)),
         Rat(25, 100))

BurnoutScore(sleep_burnout, sedentary_burnout, stress_burnout, env_burnout) ==
    RAdd(RAdd(RMul(sleep_burnout, Rat(30, 100)), RMul(sedentary_burnout, Rat(25, 100))),
         RAdd(RMul(stress_burnout, Rat(30, 100)), RMul(env_burnout, Rat(15, 100))))

BurnoutLevel(burnout_score) ==
    IF RLe(Q(70), burnout_score) THEN "high"
    ELSE IF RLe(Q(40), burnout_score) THEN "medium"
    ELSE "low"

BurnoutRecommendations(sleep_burnout, sedentary_burnout, stress_burnout, env_burnout, burnout_level) ==
    (IF RLt(Q(50), sleep_burnout)
     THEN <<"Prioritize sleep: aim for 7-9 hours of quality sleep">> ELSE <<>>)
    \o (IF RLt(Q(50), sedentary_burnout)
        THEN <<"Reduce sedentary time: take breaks every 30-60 minutes">> ELSE <<>>)
    \o (IF RLt(Q(50), stress_burnout)
        THEN <<"Practice stress management: meditation, deep breathing",
               "Consider professional support if stress persists">> ELSE <<>>)
    \o (IF RLt(Q(50), env_burnout)
        THEN <<"Optimize your environment: adjust lighting and temperature">> ELSE <<>>)
    \o (IF burnout_level = "low"
        THEN <<"Great job! Maintain your healthy habits">> ELSE <<>>)

BurnoutEmpty == [error |-> "No sensor data available", burnout_level |-> "unknown"]

DefaultScoreTenths == 500

\* ComponentScore with 0 for an analysis without the score
ComponentScoreOrZero(analysis, key) == Get(analysis, key, 0)

\* analysis.get(key, 50), in tenths
ComponentScore(analysis, key) == Get(analysis, key, DefaultScoreTenths)

BurnoutCombined(data, sleep_analysis, sedentary_analysis, hrv_analysis, clock) ==
    LET sleep_score       == Tenths(ComponentScore(sleep_analysis, "sleep_score"))
        sleep_burnout     == RSub(Q(100), sleep_score)
        sedentary_minutes == Tenths(Get(sedentary_analysis, "sedentary_duration_minutes", 0))
        sedentary_burnout == SedentaryBurnout(sedentary_minutes)
        hrv_score         == Tenths(ComponentScore(hrv_analysis, "hrv_score"))
        stress_burnout    == RSub(Q(100), hrv_score)
        normalized_data   == [i \in 1..Len(data) |-> NormalizeEnvironment(data[i])]
        env_burnout       == EnvBurnout(normalized_data)
        burnout_score     == BurnoutScore(sleep_burnout, sedentary_burnout,
                                          stress_burnout, env_burnout)
        burnout_level     == BurnoutLevel(burnout_score)
    IN  IF RaisedIn(normalized_data) # "" THEN Raise(RaisedIn(normalized_data))
        ELSE [burnout_score        |-> Round1(burnout_score),
              burnout_level        |-> burnout_level,
              contributing_factors |->
                  [sleep_impact       |-> Round1(sleep_burnout),
                   sedentary_impact   |-> Round1(sedentary_burnout),
                   stress_impact      |-> Round1(stress_burnout),
                   environment_impact |-> Round1(env_burnout),
                   sleep_quality      |-> Get(sleep_analysis, "sleep_quality", "Unknown"),
                   sedentary_hours    |-> Round1(RDivInt(sedentary_minutes, 60)),
                   stress_level       |-> Get(hrv_analysis, "stress_level", "Unknown")],
              recommendations      |->
                  BurnoutRecommendations(sleep_burnout, sedentary_burnout, stress_burnout,
                                         env_burnout, burnout_level),
              component_analyses   |-> [sleep      |-> sleep_analysis,
                                        sedentary  |-> sedentary_analysis,
                                        stress_hrv |-> hrv_analysis],
              current_time         |-> clock]

\* compute_burnout after its test for an empty sequence
BurnoutOfReadings(data, clock) ==
    LET sleep_analysis     == analyze_sleep(data, clock)
        sedentary_analysis == detect_sedentary(data, clock)
        hrv_analysis       == score_hrv(data, clock)
    IN  IF Raised(sleep_analysis) THEN sleep_analysis
        ELSE IF Raised(sedentary_analysis) THEN sedentary_analysis
        ELSE IF Raised(hrv_analysis) THEN hrv_analysis
        ELSE BurnoutCombined(data, sleep_analysis, sedentary_analysis, hrv_analysis, clock)

\* compute_burnout without its test for an empty sequence: the three analyses
\* return their error results and the average over no readings divides by zero
ComputeBurnoutUnguarded(data, clock) ==
    IF data = <<>> THEN Raise("ZeroDivisionError") ELSE BurnoutOfReadings(data, clock)

compute_burnout(data, clock) ==
    IF data = <<>> THEN BurnoutEmpty ELSE BurnoutOfReadings(data, clock)

(***************************************************************************)
(* load_live_sensors (src/app/sensors.py): the heart rate of a raw record  *)
(***************************************************************************)
\* last.get("HR", last.get("heartRate", last.get("heart_rate", 0)))
FirstHeartRate(last) ==
    Get(last, "HR", Get(last, "heartRate", Get(last, "heart_rate", Num(0))))

LiveHeartRate(last) == Float(FirstHeartRate(last))

(***************************************************************************)
(* The sequences the entry points are applied to                           *)
(***************************************************************************)
\* readings with every field under its first key
Reading(hr, rmssd, lux, temp, motion) ==
    [HR |-> Num(hr), RMSSD |-> Num(rmssd), Lux |-> Num(lux), Temp |-> Num(temp),
     Motion |-> Str(motion), timestamp |-> Str("2024-01-01 23:00:00")]

Rest == Reading(0, 45, 2, 22, "NO")

Low == Reading(50, 30, 2, 22, "NO")

Desk == Reading(60, 10, 300, 22, "NO")

Walk == Reading(100, 70, 300, 26, "YES")

Letters == {Rest, Low, Desk, Walk}

MaxLen == 5

\* every sequence of at most MaxLen readings among Letters
ShortInputs == UNION {[1..n -> Letters] : n \in 0..MaxLen}

Rep(r, n) == [i \in 1..n |-> r]

BlockLens == {2, 3, 5}

\* three runs of equal readings
BlockInputs ==
    {Rep(a, k) \o Rep(b, m) \o Rep(c, n) :
        a \in {Rest, Desk}, b \in Letters, c \in {Rest, Desk, Walk}, k, m, n \in BlockLens}

LongLens == {10, 120, 121, 234, 240, 241, 360, 361, 480, 481}

Still55 == [HR |-> Num(55), Lux |-> Num(2), Motion |-> Str("NO")]

Still0 == [HR |-> Num(0), Lux |-> Num(2), Motion |-> Str("NO")]

LongInputs == {Rep(r, n) : r \in {Rest, Desk, Still55, Still0}, n \in LongLens}

\* one reading, or three equal ones, over a grid of values
GridReadings ==
    {[HR |-> Num(hr), RMSSD |-> rmssd, Lux |-> Num(env[1]), Temp |-> Num(env[2]),
      Motion |-> Str(motion)] :
        hr \in {-5, 0, 60, 80, 90},
        rmssd \in {Num(-3), Num(0), Num(10), Num(30), Dec(4808, 100), Num(70)},
        env \in {<<0, 0>>, <<150, 19>>, <<300, 22>>, <<700, 30>>, <<-5, -3>>},
        motion \in {"NO", "YES"}}

GridInputs == {Rep(r, n) : r \in GridReadings, n \in {1, 3}}

\* raw records: other keys, missing fields, values of other types
Base == [HR |-> Num(50), RMSSD |-> Num(30), Lux |-> Num(2), Temp |-> Num(22),
         Motion |-> Str("NO"), timestamp |-> Str("t")]

Without(record, keys) == [k \in DOMAIN record \ keys |-> record[k]]

With(record, key, value) ==
    [k \in DOMAIN record \cup {key} |-> IF k = key THEN value ELSE record[k]]

RawRecords ==
    {Base, Walk,
     [k \in {} |-> Null],
     Without(Base, {"HR"}), Without(Base, {"Motion"}), Without(Base, {"timestamp"}),
     Without(Base, {"RMSSD", "Lux", "Temp"}),
     With(Without(Base, {"HR"}), "heartRate", Num(100)),
     With(Without(Base, {"HR"}), "heart_rate", Num(100)),
     With(Base, "heartRate", Num(100)),
     With(With(Without(Base, {"Lux", "Temp"}), "lux", Num(300)), "temperature", Num(26)),
     With(Without(Base, {"RMSSD"}), "rmssd", Num(70)),
     With(Without(Base, {"Motion"}), "motion", Str("YES")),
     With(Base, "HR", Null), With(Base, "HR", Str("n/a")), With(Base, "HR", Str("72")),
     With(Base, "HR", Bool(TRUE)), With(Base, "Lux", Null), With(Base, "RMSSD", Str("n/a")),
     With(Base, "Motion", Str("yes")), With(Base, "Motion", Num(0)),
     With(Base, "Motion", Num(1)), With(Base, "Motion", Bool(FALSE)),
     With(Base, "Motion", Bool(TRUE)), With(Base, "Motion", Null),
     With(Base, "timestamp", Num(5))}

MaxRawLen == 2

\* the raw records that are mixed in longer sequences
MixedRecords ==
    {Base, Walk,
     [k \in {} |-> Null],
     With(Without(Base, {"HR"}), "heart_rate", Num(100)),
     With(Base, "heartRate", Num(100)),
     With(Base, "HR", Null), With(Base, "RMSSD", Str("n/a")),
     With(Base, "Motion", Num(1))}

\* every raw record on its own, and the sequences of 2 to MaxRawLen mixed records
RawInputs ==
    {<<r>> : r \in RawRecords} \cup UNION {[1..n -> MixedRecords] : n \in 2..MaxRawLen}

\* readings with rmssd 45 and heart rates 60 and 90 (standard deviation 15)
Calm == Reading(60, 45, 300, 22, "NO")

Brisk == Reading(90, 45, 300, 22, "YES")

\* the reading r with the timestamp t
At(r, t) == With(r, "timestamp", Str(t))

\* two sleep periods, of resting (rmssd 45) and of low-heart-rate (rmssd 30)
\* readings, separated by one active reading
RestRun(n) == [i \in 1..n |-> At(Rest, "rest " \o NatStr(i))]

LowRun(n) == [i \in 1..n |-> At(Low, "low " \o NatStr(i))]

TwoPeriodInputs ==
    {RestRun(3) \o <<Walk>> \o LowRun(3), LowRun(3) \o <<Walk>> \o RestRun(3),
     RestRun(3) \o <<Walk>> \o LowRun(4), LowRun(4) \o <<Walk>> \o RestRun(3)}

\* an hour of sedentary readings, and a minute more
HourInputs == {Rep(Desk, 60), Rep(Desk, 61)}

\* an active reading with rmssd 10
Strained == Reading(100, 10, 300, 26, "YES")

\* readings without rmssd, with heart rates at the two limits of the estimate
\* from the heart rate alone
Pulse70 == Reading(70, 0, 300, 22, "YES")

Pulse85 == Reading(85, 0, 300, 22, "YES")

\* a still reading in dim light (lux 8) without heart rate or rmssd
Dim == Reading(0, 0, 8, 22, "NO")

ExampleInputs ==
    {Rep(Calm, 4), <<Calm, Brisk>>, <<Calm, Brisk, Brisk>>, <<Desk, Strained>>,
     <<Pulse70>>, <<Pulse85>>, <<Pulse85, Rest>>, Rep(Dim, 3), <<Dim, Rest, Rest>>}
        \cup TwoPeriodInputs \cup HourInputs

Inputs ==
    ShortInputs \cup BlockInputs \cup LongInputs \cup GridInputs \cup RawInputs
        \cup ExampleInputs

(***************************************************************************)
(* The state machine: one sequence, the wall clock, and the responses      *)
(***************************************************************************)
NoResponse == [fn |-> "none"]

\* no request is being served
Idle == [fn |-> "none", pc |-> "idle"]

MaxRequests == 2

NoRequests == [r \in 1..MaxRequests |-> Idle]

Respond(fn, result) == [fn |-> fn, result |-> result]

Init ==
    /\ sensor_data \in Inputs
    /\ now = 0
    /\ response = NoResponse
    /\ earlier = NoResponse
    /\ requests = NoRequests

\* the result of the entry point fn on data when the clock reads clock
Apply(fn, data, clock) ==
    CASE fn = "analyze_sleep"    -> analyze_sleep(data, clock)
      [] fn = "detect_sedentary" -> detect_sedentary(data, clock)
      [] fn = "score_hrv"        -> score_hrv(data, clock)
      [] fn = "compute_burnout"  -> compute_burnout(data, clock)

CallAnalyzeSleep ==
    /\ response' = Respond("analyze_sleep", Apply("analyze_sleep", sensor_data, now))
    /\ UNCHANGED <<sensor_data, now, earlier, requests>>

CallDetectSedentary ==
    /\ response' = Respond("detect_sedentary", Apply("detect_sedentary", sensor_data, now))
    /\ UNCHANGED <<sensor_data, now, earlier, requests>>

CallScoreHrv ==
    /\ response' = Respond("score_hrv", Apply("score_hrv", sensor_data, now))
    /\ UNCHANGED <<sensor_data, now, earlier, requests>>

CallComputeBurnout ==
    /\ response' = Respond("compute_burnout", Apply("compute_burnout", sensor_data, now))
    /\ UNCHANGED <<sensor_data, now, earlier, requests>>

Next == CallAnalyzeSleep \/ CallDetectSedentary \/ CallScoreHrv \/ CallComputeBurnout

Spec == Init /\ [][Next]_vars

(***************************************************************************)
(* Repeated calls while the wall clock advances                            *)
(***************************************************************************)
MaxClock == 1

MaxClockLen == 3

\* a sleeping, a sedentary and an active reading
ClockLetters == {Rest, Desk, Walk}

ClockInputs == UNION {[1..n -> ClockLetters] : n \in 0..MaxClockLen}

InitClock ==
    /\ sensor_data \in ClockInputs
    /\ now = 0
    /\ response = NoResponse
    /\ earlier = NoResponse
    /\ requests = NoRequests

\* a second passes
Tick ==
    /\ now < MaxClock
    /\ now' = now + 1
    /\ UNCHANGED <<sensor_data, response, earlier, requests>>

\* the entry point of the last response is called again on the same sequence
CallAgain ==
    /\ response # NoResponse
    /\ earlier' = response
    /\ response' = Respond(response.fn, Apply(response.fn, sensor_data, now))
    /\ UNCHANGED <<sensor_data, now, requests>>

NextClock == Next \/ Tick \/ CallAgain

SpecClock == InitClock /\ [][NextClock]_vars

(***************************************************************************)
(* Concurrent requests on one sequence.  A request runs its entry point in  *)
(* passes over the sequence: one for analyze_sleep, detect_sedentary and    *)
(* score_hrv, and for compute_burnout one for each of its three nested      *)
(* calls and one for its own environment averages.  Passes of different     *)
(* requests interleave.                                                     *)
(***************************************************************************)
MaxRequestLen == 3

RequestInputs == UNION {[1..n -> {Rest, Low}] : n \in 0..MaxRequestLen}

EntryPoints == {"analyze_sleep", "detect_sedentary", "score_hrv", "compute_burnout"}

\* the sequence as a pass leaves it, written into the records themselves
NormalizedInPlace(data) ==
    [i \in 1..Len(data) |->
        [hr     |-> Num(HrOf(data[i]).q[1]),
         rmssd  |-> Num(RmssdOf(data[i]).q[1]),
         lux    |-> Num(LuxOf(data[i]).q[1]),
         temp   |-> Num(TempOf(data[i]).q[1]),
         motion |-> Str(MotionOf(data[i])),
         timestamp |-> TimestampOf(data[i])]]

\* the sequence as a pass leaves it: a pass builds new records and writes
\* neither the sequence nor its records
InputAfter(data) == data

Finished(request, result) == [fn |-> request.fn, pc |-> "done", result |-> result]

\* the request after its next pass over data
NextPass(request, data, clock) ==
    IF request.fn # "compute_burnout" THEN Finished(request, Apply(request.fn, data, clock))
    ELSE IF data = <<>> THEN Finished(request, BurnoutEmpty)
    ELSE IF request.pc = "sleep"
    THEN LET sleep_analysis == analyze_sleep(data, clock)
         IN  IF Raised(sleep_analysis) THEN Finished(request, sleep_analysis)
             ELSE [fn |-> request.fn, pc |-> "sedentary", sleep |-> sleep_analysis]
    ELSE IF request.pc = "sedentary"
    THEN LET sedentary_analysis == detect_sedentary(data, clock)
         IN  IF Raised(sedentary_analysis) THEN Finished(request, sedentary_analysis)
             ELSE [fn |-> request.fn, pc |-> "hrv", sleep |-> request.sleep,
                   sedentary |-> sedentary_analysis]
    ELSE IF request.pc = "hrv"
    THEN LET hrv_analysis == score_hrv(data, clock)
         IN  IF Raised(hrv_analysis) THEN Finished(request, hrv_analysis)
             ELSE [fn |-> request.fn, pc |-> "combine", sleep |-> request.sleep,
                   sedentary |-> request.sedentary, hrv |-> hrv_analysis]
    ELSE Finished(request, BurnoutCombined(data, request.sleep, request.sedentary,
                                           request.hrv, clock))

InitRequests ==
    /\ sensor_data \in RequestInputs
    /\ now = 0
    /\ response = NoResponse
    /\ earlier = NoResponse
    /\ requests = NoRequests

\* a request arrives for one of the entry points
Begin(r) ==
    /\ requests[r].pc = "idle"
    /\ \E fn \in EntryPoints :
           requests' = [requests EXCEPT ![r] = [fn |-> fn, pc |-> "sleep"]]
    /\ UNCHANGED <<sensor_data, now, response, earlier>>

\* a request makes its next pass over the sequence
Pass(r) ==
    /\ requests[r].pc \notin {"idle", "done"}
    /\ requests' = [requests EXCEPT ![r] = NextPass(requests[r], sensor_data, now)]
    /\ sensor_data' = InputAfter(sensor_data)
    /\ UNCHANGED <<now, response, earlier>>

\* a request returns its result to its own caller
Return(r) ==
    /\ requests[r].pc = "done"
    /\ requests' = [requests EXCEPT ![r] = Idle]
    /\ UNCHANGED <<sensor_data, now, response, earlier>>

NextRequests == \E r \in 1..MaxRequests : Begin(r) \/ Pass(r) \/ Return(r)

SpecRequests == InitRequests /\ [][NextRequests]_vars

(***************************************************************************)
(* Properties                                                              *)
(***************************************************************************)
N == Len(sensor_data)

\* the last response is the result of fn, which returned
Answered(fn) == response.fn = fn /\ ~Raised(response.result)

Has(result, field) == field \in DOMAIN result

Detected(result) == Has(result, "sleep_detected") /\ result.sleep_detected

\* asleep[i]: reading i (from 1) of data satisfies the sleep predicate of the
\* sleep segmenter
SleepFlags(data) ==
    LET normalized_data == [i \in 1..Len(data) |-> NormalizeSleep(data[i])]
        avg_hr == MeanPositive([i \in 1..Len(data) |-> normalized_data[i].hr])
    IN  [i \in 1..Len(data) |-> IsSleeping(normalized_data[i], avg_hr)]

\* data has k consecutive readings that satisfy the sleep predicate
SleepRun(data, k) ==
    LET asleep == SleepFlags(data)
    IN  \E s \in 1..(Len(data) - k + 1) : \A j \in s..(s + k - 1) : asleep[j]

\* C1: analyze_sleep reports a sleep period exactly when the sequence has a run
\* of at least 3 consecutive readings that satisfy the sleep predicate (so a run
\* of 2 is not reported and a run of 3 is, also when it is open at the end).
C1_SleepMinimumRun ==
    Answered("analyze_sleep") => (Detected(response.result) <=> SleepRun(sensor_data, 3))

\* a reported run of exactly 3 readings that is still open when the sequence ends
C1_OpenRunOfThree ==
    /\ Answered("analyze_sleep")
    /\ Detected(response.result)
    /\ N >= 4
    /\ \A j \in 1..N : SleepFlags(sensor_data)[j] <=> j >= N - 2

\* the sedentary periods detect_sedentary finds on data
SedentaryPeriodsOf(data) ==
    LET normalized_data == [i \in 1..Len(data) |-> NormalizeSedentary(data[i])]
    IN  SedentaryPeriods(normalized_data, SleepIndices(normalized_data))

\* the 0-based indices start_idx..end_idx of period p that are not asleep
AwakeIn(p, asleep) == {i \in p.start_idx..p.end_idx : ~asleep[i + 1]}

\* C2: no index whose reading satisfies the sleep predicate lies inside a
\* sedentary period, and the total, the longest period and the count that
\* detect_sedentary reports are those of the periods' readings that are not asleep.
C2_SedentaryExcludesSleep ==
    (Answered("detect_sedentary") /\ sensor_data # <<>>) =>
        LET asleep  == SleepFlags(sensor_data)
            periods == SedentaryPeriodsOf(sensor_data)
            awake   == [k \in 1..Len(periods) |-> Cardinality(AwakeIn(periods[k], asleep))]
            result  == response.result
        IN  /\ \A k \in 1..Len(periods) :
                   \A i \in periods[k].start_idx..periods[k].end_idx : ~asleep[i + 1]
            /\ \A k \in 1..Len(periods) :
                   /\ awake[k] = periods[k].end_idx - periods[k].start_idx + 1
                   /\ awake[k] * 10 <= result.longest_sedentary_period_minutes
            /\ result.sedentary_periods_count = Len(periods)
            /\ result.sedentary_duration_minutes
                   = 10 * Cardinality(UNION {AwakeIn(periods[k], asleep) :
                                                k \in 1..Len(periods)})
            /\ \/ Len(periods) = 0 /\ result.longest_sedentary_period_minutes = 0
               \/ \E k \in 1..Len(periods) :
                      result.longest_sedentary_period_minutes = 10 * awake[k]

\* a sedentary period that ends at a reading that is asleep
C2_SleepEndsAPeriod ==
    /\ Answered("detect_sedentary")
    /\ \E k \in 1..Len(SedentaryPeriodsOf(sensor_data)) :
           /\ SedentaryPeriodsOf(sensor_data)[k].end_idx + 2 <= N
           /\ SleepFlags(sensor_data)[SedentaryPeriodsOf(sensor_data)[k].end_idx + 2]

\* the 0-based indices analyze_sleep's segmentation assigns to sleep periods
SleepPeriodIndices(data) ==
    LET periods == SleepPeriods([i \in 1..Len(data) |-> NormalizeSleep(data[i])])
    IN  UNION {periods[k].start_idx..periods[k].end_idx : k \in 1..Len(periods)}

\* C3: the indices detect_sedentary treats as sleeping are the indices that
\* analyze_sleep assigns to sleep periods, and detect_sedentary reports
\* "sleeping" only where analyze_sleep detects a sleep period.
C3_SameSleepSet ==
    (Answered("detect_sedentary") /\ sensor_data # <<>>) =>
        /\ SleepIndices([i \in 1..N |-> NormalizeSedentary(sensor_data[i])])
               = SleepPeriodIndices(sensor_data)
        /\ response.result.sedentary_status = "sleeping"
               => Detected(analyze_sleep(sensor_data, now))

\* a result without the time of the call, at its top level and in the results
\* nested in component_analyses
WithoutTime(result) == [k \in DOMAIN result \ {"current_time"} |-> result[k]]

Timeless(result) ==
    [k \in DOMAIN result \ {"current_time"} |->
        IF k = "component_analyses"
        THEN [c \in DOMAIN result[k] |-> WithoutTime(result[k][c])]
        ELSE result[k]]

\* the last two responses are results of the same entry point (on the same
\* sequence: sensor_data never changes)
CalledTwice == earlier # NoResponse /\ earlier.fn = response.fn

SleepLadder(tenths) ==
    IF tenths >= 750 THEN "Good" ELSE IF tenths >= 500 THEN "OK" ELSE "Poor"

BurnoutLadder(tenths) ==
    IF tenths >= 700 THEN "high" ELSE IF tenths >= 400 THEN "medium" ELSE "low"

\* C5: for a non-empty sequence the tier returned with a score is the tier of
\* the ladder for the returned score: sleep_quality for sleep_score (Good from
\* 75, OK from 50) and burnout_level for burnout_score (high from 70, medium
\* from 40).
C5_TierOfReturnedScore ==
    /\ (Answered("analyze_sleep") /\ sensor_data # <<>>) =>
           response.result.sleep_quality = SleepLadder(response.result.sleep_score)
    /\ (Answered("compute_burnout") /\ sensor_data # <<>>) =>
           response.result.burnout_level = BurnoutLadder(response.result.burnout_score)

\* a score in tenths within [0, 100]
InRange(tenths) == 0 <= tenths /\ tenths <= 1000

FieldsInRange(result, fields) == \A f \in fields : Has(result, f) => InRange(result[f])

\* C6: sleep_score and the four quality_factors sub-scores, hrv_score, and
\* burnout_score and the four impacts are all within [0, 100], for every sequence.
C6_ScoresInRange ==
    /\ Answered("analyze_sleep") =>
           /\ FieldsInRange(response.result, {"sleep_score"})
           /\ Has(response.result, "quality_factors") =>
                  FieldsInRange(response.result.quality_factors,
                                {"duration_score", "consistency_score",
                                 "environment_score", "hrv_recovery_score"})
    /\ Answered("score_hrv") => FieldsInRange(response.result, {"hrv_score"})
    /\ Answered("compute_burnout") =>
           /\ FieldsInRange(response.result, {"burnout_score"})
           /\ Has(response.result, "contributing_factors") =>
                  FieldsInRange(response.result.contributing_factors,
                                {"sleep_impact", "sedentary_impact", "stress_impact",
                                 "environment_impact"})

\* a burnout score for a sleep period of readings with negative values
C6_NegativeReadings ==
    /\ Answered("compute_burnout")
    /\ Has(response.result, "burnout_score")
    /\ sensor_data[1].HR = Num(-5)
    /\ sensor_data[1].Lux = Num(-5)
    /\ Detected(response.result.component_analyses.sleep)

\* C7: a reading whose positive hr is the largest hr of the sequence is in no
\* sleep period; ten still, dark readings with hr 55 give the no-sleep result
\* (score 30, "Poor"), and the same ten readings with hr 0 one sleep period.
C7_AverageThreshold ==
    Answered("analyze_sleep") =>
        LET hrs  == [i \in 1..N |-> NormalizeSleep(sensor_data[i]).hr]
            top  == CHOOSE i \in 1..N : \A j \in 1..N : RLe(hrs[j], hrs[i])
            slept == SleepPeriodIndices(sensor_data)
        IN  /\ \A i \in 1..N :
                   (RLt(Q(0), hrs[i]) /\ hrs[i] = hrs[top]) => (i - 1) \notin slept
            /\ sensor_data = Rep(Still55, 10) =>
                   /\ ~Detected(response.result)
                   /\ response.result.sleep_score = 300
                   /\ response.result.sleep_quality = "Poor"
            /\ sensor_data = Rep(Still0, 10) =>
                   /\ Detected(response.result)
                   /\ slept = 0..9
                   /\ response.result.total_duration_hours = 17

\* analyze_sleep has answered for the ten readings with hr 55
C7_TenEqualReadings == Answered("analyze_sleep") /\ sensor_data = Rep(Still55, 10)

UnknownTier(fn) ==
    CASE fn = "analyze_sleep"    -> [field |-> "sleep_quality", value |-> "Unknown"]
      [] fn = "detect_sedentary" -> [field |-> "sedentary_status", value |-> "unknown"]
      [] fn = "score_hrv"        -> [field |-> "stress_level", value |-> "unknown"]
      [] fn = "compute_burnout"  -> [field |-> "burnout_level", value |-> "unknown"]

\* C8: on the empty sequence every entry point returns, without raising, a result
\* with an error field and its unknown tier, and runs no analysis (no nested
\* results, no scores beyond the fixed sleep_score 0).
C8_EmptyInput ==
    (response.fn # "none" /\ sensor_data = <<>>) =>
        /\ ~Raised(response.result)
        /\ Has(response.result, "error")
        /\ Has(response.result, UnknownTier(response.fn).field)
        /\ response.result[UnknownTier(response.fn).field] = UnknownTier(response.fn).value
        /\ DOMAIN response.result \subseteq {"error", "sleep_score",
                                             UnknownTier(response.fn).field}

\* compute_burnout has answered for the empty sequence
C8_BurnoutOfNothing == response.fn = "compute_burnout" /\ sensor_data = <<>>

HeartRateKeys == {"HR", "heartRate", "heart_rate"}

\* the record with the defaults written out for the fields it has under no key
FillDefaults(record) ==
    LET hr == IF HeartRateKeys \cap DOMAIN record = {}
              THEN With(record, "HR", Num(0)) ELSE record
        rm == IF {"RMSSD", "rmssd"} \cap DOMAIN record = {}
              THEN With(hr, "RMSSD", Num(0)) ELSE hr
        lx == IF {"Lux", "lux"} \cap DOMAIN record = {}
              THEN With(rm, "Lux", Num(0)) ELSE rm
        tp == IF {"Temp", "temperature"} \cap DOMAIN record = {}
              THEN With(lx, "Temp", Num(0)) ELSE lx
        mo == IF {"Motion", "motion"} \cap DOMAIN record = {}
              THEN With(tp, "Motion", Str("NO")) ELSE tp
    IN  IF "timestamp" \in DOMAIN record THEN mo ELSE With(mo, "timestamp", Str(""))

\* C9: no entry point raises, whatever the raw records hold, and a missing
\* numeric field counts as 0, a missing motion as "NO", a missing timestamp as "".
C9_NeverRaises ==
    response.fn # "none" =>
        /\ ~Raised(response.result)
        /\ response.result
               = Apply(response.fn, [i \in 1..N |-> FillDefaults(sensor_data[i])], now)

\* the record with its heart rate, taken from the first key it has among HR,
\* heartRate and heart_rate, under the key HR
UnderHR(record) ==
    IF HeartRateKeys \cap DOMAIN record = {} THEN record
    ELSE With(Without(record, {"heartRate", "heart_rate"}), "HR", FirstHeartRate(record))

\* C10: the heart rate of a reading is the value of the first key it has among
\* HR, heartRate and heart_rate: every entry point returns what it returns for
\* the same readings with that value under HR.
C10_HeartRateKeys ==
    response.fn # "none" =>
        response.result = Apply(response.fn, [i \in 1..N |-> UnderHR(sensor_data[i])], now)

\* the raw motion of a record, "NO" when it has none
RawMotion(record) == Get(record, "Motion", Get(record, "motion", Str("NO")))

\* "YES"/"NO" in any case, 1/0, true/false
BooleanLike(v) ==
    \/ v.t = "str" /\ v.s \in {"YES", "NO", "yes", "no", "Yes", "No"}
    \/ v.t = "num" /\ v.q \in {Q(0), Q(1)}
    \/ v.t = "bool"

\* C11: for a boolean-like raw motion the normalised motion is "YES" or "NO";
\* a last reading with raw motion 1 gives sedentary_status "active", and a
\* reading with raw motion 0, lux < 10 and hr below 0.85 times the average
\* counts as sleeping (a lone such last reading gives "sleeping").
C11_MotionTwoValued ==
    (response.fn # "none" /\ ~Raised(response.result)) =>
        /\ \A i \in 1..N :
               BooleanLike(RawMotion(sensor_data[i])) =>
                   MotionOf(sensor_data[i]) \in {"YES", "NO"}
        /\ (Answered("detect_sedentary") /\ N > 0
              /\ RawMotion(sensor_data[N]) \in {Num(1), Bool(TRUE)}) =>
               response.result.sedentary_status = "active"

\* the positive heart rates and rmssd values of a sequence, as score_hrv collects them
HrValues(data) == PositiveOf([i \in 1..Len(data) |-> NormalizeHrv(data[i]).hr])

RmssdValues(data) == PositiveOf([i \in 1..Len(data) |-> NormalizeHrv(data[i]).rmssd])

AvgPositive(values) == IF values = <<>> THEN Q(0) ELSE RDivInt(SumSeq(values), Len(values))

\* score_hrv has returned a score for sensor_data
HrvScored == Answered("score_hrv") /\ Has(response.result, "hrv_score")

\* the standard deviation of the positive heart rates is above 15
HrStdAbove15(data) ==
    RLt(Q(225), HrVariance(HrValues(data), AvgPositive(HrValues(data))))

\* the average rmssd is in [40, 60) and the standard deviation at most 15
GoodBand(data) ==
    /\ RLe(Q(40), AvgPositive(RmssdValues(data)))
    /\ RLt(AvgPositive(RmssdValues(data)), Q(60))
    /\ ~HrStdAbove15(data)

GoodBandScore(data) ==
    RAdd(Q(70), RMul(RSub(AvgPositive(RmssdValues(data)), Q(40)), Rat(125, 100)))

\* C12, as claimed: with the average positive rmssd in [40, 60) and a heart-rate
\* standard deviation of at most 15, the returned hrv_score is exactly
\* 70 + (avg_rmssd - 40) * 1.25 with stress_level "low"; 76.25 for four readings
\* with hr 60 and rmssd 45.
C12_GoodBandExact ==
    (HrvScored /\ GoodBand(sensor_data)) =>
        /\ Tenths(response.result.hrv_score) = GoodBandScore(sensor_data)
        /\ response.result.stress_level = "low"

\* C12, amended: in that case the returned hrv_score is
\* 70 + (avg_rmssd - 40) * 1.25 rounded to one decimal, with stress_level "low";
\* 76.2 for four readings with hr 60 and rmssd 45.
C12_GoodBandRounded ==
    (HrvScored /\ GoodBand(sensor_data)) =>
        /\ response.result.hrv_score = Round1(GoodBandScore(sensor_data))
        /\ response.result.stress_level = "low"
        /\ sensor_data = Rep(Calm, 4) => response.result.hrv_score = 762

\* score_hrv has answered for the four readings with hr 60 and rmssd 45
C12_FourCalmReadings == HrvScored /\ sensor_data = Rep(Calm, 4)

\* compute_burnout has returned a score for sensor_data
BurnoutScored == Answered("compute_burnout") /\ Has(response.result, "burnout_score")

\* 0.30, 0.25, 0.30 and 0.15 of the four impacts a result reports
WeightedImpacts(factors) ==
    RAdd(RAdd(RMul(Tenths(factors.sleep_impact), Rat(30, 100)),
              RMul(Tenths(factors.sedentary_impact), Rat(25, 100))),
         RAdd(RMul(Tenths(factors.stress_impact), Rat(30, 100)),
              RMul(Tenths(factors.environment_impact), Rat(15, 100))))

\* analyses without scores (the 50 / 0 / 50 defaults apply) for one reading
\* with lux 300 and temperature 22
MidRange ==
    BurnoutCombined(<<Calm>>, [sleep_quality |-> "OK"], [sedentary_status |-> "active"],
                    [stress_level |-> "medium"], 0)

\* C13, as claimed: the returned burnout_score is exactly 0.30 sleep_impact +
\* 0.25 sedentary_impact + 0.30 stress_impact + 0.15 environment_impact of the
\* returned contributing factors.
C13_WeightedExact ==
    BurnoutScored =>
        Tenths(response.result.burnout_score)
            = WeightedImpacts(response.result.contributing_factors)

\* C13, amended: the returned burnout_score is that weighted sum rounded to one
\* decimal; components 50, 10, 50 and 10 give 34.0 and "low".
C13_WeightedRounded ==
    BurnoutScored =>
        /\ response.result.burnout_score
               = Round1(WeightedImpacts(response.result.contributing_factors))
        /\ MidRange.contributing_factors.sleep_impact = 500
        /\ MidRange.contributing_factors.sedentary_impact = 100
        /\ MidRange.contributing_factors.stress_impact = 500
        /\ MidRange.contributing_factors.environment_impact = 100
        /\ MidRange.burnout_score = 340
        /\ MidRange.burnout_level = "low"

\* a burnout score whose weighted sum (32.14) is not a whole number of tenths
C13_RoundedSum ==
    /\ BurnoutScored
    /\ sensor_data = Rep(Calm, 4)
    /\ response.result.contributing_factors.environment_impact = 100
    /\ response.result.contributing_factors.stress_impact = 238
    /\ response.result.burnout_score = 321

\* every record of the sequence has numeric hr and rmssd values
Readable(data) == \A i \in 1..Len(data) : NormalizeHrv(data[i]).exc = ""

\* C14: for a non-empty sequence (of numeric readings) without a strictly
\* positive heart rate, score_hrv returns, without raising, the error result "No
\* valid heart rate data" with stress_level "unknown" and no hrv_score, whatever
\* the rmssd values are.
C14_NoHeartRate ==
    (Answered("score_hrv") /\ N > 0 /\ Readable(sensor_data)
        /\ \A i \in 1..N : RLe(NormalizeHrv(sensor_data[i]).hr, Q(0))) =>
        /\ ~Raised(response.result)
        /\ Has(response.result, "error")
        /\ response.result.error = "No valid heart rate data"
        /\ response.result.stress_level = "unknown"
        /\ ~Has(response.result, "hrv_score")

\* score_hrv has answered for three readings with hr -5 and rmssd 70
C14_NegativeHeartRate ==
    /\ Answered("score_hrv")
    /\ N = 3
    /\ sensor_data[1].HR = Num(-5)
    /\ sensor_data[1].RMSSD = Num(70)

SleepRuns(data) ==
    LET asleep == SleepFlags(data)
        n      == Len(data)
        starts == {a \in 1..n : asleep[a] /\ (a = 1 \/ ~asleep[a - 1])}
        EndOf(a) == CHOOSE b \in a..n :
                        (b = n \/ ~asleep[b + 1]) /\ \A j \in a..b : asleep[j]
    IN  {run \in {<<a, EndOf(a)>> : a \in starts} : run[2] - run[1] + 1 >= 3}

\* the earliest of the longest runs
EarliestLongest(runs) ==
    CHOOSE p \in runs :
        \A q \in runs :
            \/ q[2] - q[1] < p[2] - p[1]
            \/ q[2] - q[1] = p[2] - p[1] /\ p[1] <= q[1]

\* C16: analyze_sleep scores the sleep period with the most readings, the
\* earliest one among those of maximal length; total_duration_hours is that
\* period's number of readings divided by 60, rounded to 2 decimals, and the
\* start and end timestamps are those of its first and last reading.
C16_EarliestLongestPeriod ==
    (Answered("analyze_sleep") /\ Detected(response.result)) =>
        LET run == EarliestLongest(SleepRuns(sensor_data))
            records == [i \in 1..(run[2] - run[1] + 1) |->
                           NormalizeSleep(sensor_data[run[1] + i - 1])]
        IN  /\ response.result = SleepScored([records |-> records], now)
            /\ response.result.total_duration_hours
                   = Round2(Rat(run[2] - run[1] + 1, 60))
            /\ response.result.sleep_start = TimestampOf(sensor_data[run[1]])
            /\ response.result.sleep_end = TimestampOf(sensor_data[run[2]])

\* two sleep periods of three readings each, the first one scored
C16_TwoEqualPeriods ==
    /\ Answered("analyze_sleep")
    /\ sensor_data = LowRun(3) \o <<Walk>> \o RestRun(3)
    /\ response.result.sleep_start = Str("low 1")
    /\ response.result.sleep_end = Str("low 3")
    /\ response.result.total_duration_hours = 5

\* the maximal runs <<first, last>> (from 1) of at least `least` indices i with flags[i]
MaximalRuns(flags, least) ==
    LET n      == Len(flags)
        starts == {a \in 1..n : flags[a] /\ (a = 1 \/ ~flags[a - 1])}
        EndOf(a) == CHOOSE b \in a..n :
                        (b = n \/ ~flags[b + 1]) /\ \A j \in a..b : flags[j]
    IN  {run \in {<<a, EndOf(a)>> : a \in starts} : run[2] - run[1] + 1 >= least}

\* still[i]: reading i of data is not asleep, has motion "NO" and lux >= 10
StillAwake(data) ==
    LET asleep == SleepFlags(data)
    IN  [i \in 1..Len(data) |->
            /\ ~asleep[i]
            /\ NormalizeSedentary(data[i]).motion = "NO"
            /\ RLe(Q(10), NormalizeSedentary(data[i]).lux)]

\* C17: the sedentary periods are the maximal runs of at least 5 consecutive
\* readings that are not asleep, still and with lux >= 10: the count is the
\* number of such runs, the total the sum of their lengths, the longest the
\* largest length (0 without a run); each period has duration_minutes =
\* end_idx - start_idx + 1, the periods are disjoint, and shorter runs add nothing.
C17_SedentaryRuns ==
    (Answered("detect_sedentary") /\ sensor_data # <<>> /\ ~Raised(response.result)) =>
        LET runs    == MaximalRuns(StillAwake(sensor_data), 5)
            periods == SedentaryPeriodsOf(sensor_data)
            result  == response.result
        IN  /\ result.sedentary_periods_count = Cardinality(runs)
            /\ result.sedentary_duration_minutes
                   = 10 * Cardinality(UNION {run[1]..run[2] : run \in runs})
            /\ \A run \in runs :
                   10 * (run[2] - run[1] + 1) <= result.longest_sedentary_period_minutes
            /\ \/ runs = {} /\ result.longest_sedentary_period_minutes = 0
               \/ \E run \in runs :
                      result.longest_sedentary_period_minutes = 10 * (run[2] - run[1] + 1)
            /\ Len(periods) = Cardinality(runs)
            /\ \A k \in 1..Len(periods) :
                   /\ <<periods[k].start_idx + 1, periods[k].end_idx + 1>> \in runs
                   /\ periods[k].duration_minutes
                          = periods[k].end_idx - periods[k].start_idx + 1
                   /\ \A j \in 1..(k - 1) : periods[j].end_idx < periods[k].start_idx

\* a run of two sedentary readings that adds nothing before a period of five
C17_ShortRunThenPeriod ==
    /\ Answered("detect_sedentary")
    /\ N >= 8
    /\ sensor_data[1] = Desk /\ sensor_data[2] = Desk /\ sensor_data[3] = Walk
    /\ sensor_data[N] = Desk
    /\ response.result.sedentary_periods_count = 1
    /\ response.result.sedentary_duration_minutes = 50

\* C18: for a non-empty sequence sedentary_status is "sleeping" if the last
\* reading satisfies the sleep predicate, otherwise "active" if its motion is
\* "YES", otherwise "sedentary" (whatever its lux and whether or not a sedentary
\* period was found); the recommendation is the break advice exactly when the
\* total sedentary minutes exceed 60.
C18_StatusOfLastReading ==
    (Answered("detect_sedentary") /\ sensor_data # <<>>) =>
        LET result == response.result
        IN  /\ result.sedentary_status
                   = IF SleepFlags(sensor_data)[N] THEN "sleeping"
                     ELSE IF NormalizeSedentary(sensor_data[N]).motion = "YES" THEN "active"
                     ELSE "sedentary"
            /\ result.recommendation \in {"Take a 5-minute break every hour",
                                          "Good activity level"}
            /\ result.recommendation = "Take a 5-minute break every hour"
                   <=> result.sedentary_duration_minutes > 600
            /\ sensor_data = Rep(Desk, 60) => result.recommendation = "Good activity level"
            /\ sensor_data = Rep(Desk, 61) =>
                   result.recommendation = "Take a 5-minute break every hour"

\* a last reading that is still in the dark but not asleep, and no sedentary period
C18_StillInTheDark ==
    /\ Answered("detect_sedentary")
    /\ N > 0
    /\ sensor_data[N] = Low
    /\ ~SleepFlags(sensor_data)[N]
    /\ response.result.sedentary_status = "sedentary"
    /\ response.result.sedentary_periods_count = 0

\* the primary score and tier of score_hrv on data
PrimaryOf(data) ==
    HrvPrimary(AvgPositive(RmssdValues(data)), AvgPositive(HrValues(data)))

\* C19: the penalty applies exactly when there are at least 2 positive heart
\* rates and their standard deviation is strictly above 15: then "low" becomes
\* "medium", "medium" and "high" become "high" and the score max(20, score - 15);
\* otherwise score and tier are the primary ones (the returned score rounded to
\* one decimal in both cases); the recommendations are those of the final tier.
C19_StdPenalty ==
    HrvScored =>
        LET primary  == PrimaryOf(sensor_data)
            penalty  == Len(HrValues(sensor_data)) >= 2 /\ HrStdAbove15(sensor_data)
            result   == response.result
        IN  /\ penalty =>
                   /\ result.hrv_score = Round1(RMax(Q(20), RSub(primary.hrv_score, Q(15))))
                   /\ result.stress_level
                          = IF primary.stress_level = "low" THEN "medium" ELSE "high"
            /\ ~penalty =>
                   /\ result.hrv_score = Round1(primary.hrv_score)
                   /\ result.stress_level = primary.stress_level
            /\ result.recommendations = HrvRecommendations(result.stress_level)
            /\ sensor_data = <<Calm, Brisk>> => result.stress_level = "low"
            /\ sensor_data = <<Desk, Strained>> => result.hrv_score = 200

\* heart rates 50 and 100 (standard deviation 25): 82.5 and "low" become 67.5
\* and "medium"
C19_LowBecomesMedium ==
    /\ HrvScored
    /\ sensor_data = <<Low, Walk>>
    /\ response.result.hrv_score = 675
    /\ response.result.stress_level = "medium"
    /\ response.result.heart_rate_variability_std = 250

\* the mean of the strictly positive values of xs, 0 without any
MeanOfPositive(xs) ==
    LET positive == SelectSeq(xs, LAMBDA x : RLt(Q(0), x))
    IN  IF positive = <<>> THEN Q(0) ELSE RDivInt(SumSeq(positive), Len(positive))

\* the ladder over the average rmssd, and over the average heart rate without any
LadderOf(rmssd, hr) ==
    IF RLe(Q(60), rmssd) THEN [hrv_score |-> Q(95), stress_level |-> "low"]
    ELSE IF RLe(Q(40), rmssd)
    THEN [hrv_score |-> RAdd(Q(70), RMul(RSub(rmssd, Q(40)), Rat(5, 4))),
          stress_level |-> "low"]
    ELSE IF RLe(Q(20), rmssd)
    THEN [hrv_score |-> RAdd(Q(40), RMul(RSub(rmssd, Q(20)), Rat(3, 2))),
          stress_level |-> "medium"]
    ELSE IF RLt(Q(0), rmssd) THEN [hrv_score |-> RAdd(Q(20), rmssd), stress_level |-> "high"]
    ELSE IF RLt(hr, Q(70)) THEN [hrv_score |-> Q(70), stress_level |-> "low"]
    ELSE IF RLt(hr, Q(85)) THEN [hrv_score |-> Q(50), stress_level |-> "medium"]
    ELSE [hrv_score |-> Q(30), stress_level |-> "high"]

\* C20: score_hrv averages the strictly positive values only; without a
\* positive rmssd the primary score comes from the average heart rate (< 70: 70
\* and "low", < 85: 50 and "medium", else 30 and "high"), and with a positive
\* rmssd from the rmssd ladder (>= 60, >= 40, >= 20, > 0) alone.
C20_PositiveAverages ==
    HrvScored =>
        LET hr      == MeanOfPositive([i \in 1..N |-> NormalizeHrv(sensor_data[i]).hr])
            rmssd   == MeanOfPositive([i \in 1..N |-> NormalizeHrv(sensor_data[i]).rmssd])
            penalty == Len(HrValues(sensor_data)) >= 2 /\ HrStdAbove15(sensor_data)
            final   == HrvAdjusted(LadderOf(rmssd, hr), penalty)
            result  == response.result
        IN  /\ result.avg_heart_rate = Round1(hr)
            /\ result.avg_rmssd = IF RLt(Q(0), rmssd) THEN Round1(rmssd) ELSE None
            /\ result.hrv_score = Round1(final.hrv_score)
            /\ result.stress_level = final.stress_level
            /\ sensor_data = <<Pulse70>> =>
                   result.hrv_score = 500 /\ result.stress_level = "medium"
            /\ sensor_data = <<Pulse85, Rest>> =>
                   result.hrv_score = 762 /\ result.stress_level = "low"

\* a heart rate of 85 without any rmssd: 30 and "high"
C20_HeartRateAlone ==
    /\ HrvScored
    /\ sensor_data = <<Pulse85>>
    /\ response.result.avg_rmssd = None
    /\ response.result.hrv_score = 300
    /\ response.result.stress_level = "high"

\* the rmssd values of the readings of the scored sleep period of data
PeriodRmssd(data) ==
    LET run == EarliestLongest(SleepRuns(data))
    IN  [i \in 1..(run[2] - run[1] + 1) |-> NormalizeSleep(data[run[1] + i - 1]).rmssd]

\* the recovery ladder with its middle band measured from 40
RecoveryFrom40(avg) ==
    IF RLt(Q(40), avg) THEN Q(100)
    ELSE IF RLt(Q(20), avg) THEN RAdd(Q(70), RMul(RSub(avg, Q(40)), Rat(3, 2)))
    ELSE RMax(Q(30), RMul(avg, Q(2)))

\* C21: the hrv_recovery_score of the scored sleep period, from the average of
\* its strictly positive rmssd values (0 without any), is 100 when the average
\* is above 40, 70 + (average - 40) * 1.5 when it is above 20 and at most 40,
\* and max(30, average * 2) otherwise (compared after rounding to one decimal).
C21_RecoveryLadder ==
    (Answered("analyze_sleep") /\ Detected(response.result)) =>
        response.result.quality_factors.hrv_recovery_score
            = Round1(RecoveryFrom40(MeanOfPositive(PeriodRmssd(sensor_data))))

\* the impact, in tenths, of a total of sedentary minutes given in tenths
ImpactOfMinutes(tenths) ==
    IF tenths > 4800 THEN 900
    ELSE IF tenths > 3600 THEN 700
    ELSE IF tenths > 2400 THEN 500
    ELSE IF tenths > 1200 THEN 300
    ELSE 100

\* C22: in compute_burnout sleep_impact is 100 minus the sleep_score that
\* analyze_sleep returns for the same sequence, stress_impact is 100 minus the
\* hrv_score that score_hrv returns, sedentary_impact follows the strict ladder
\* (> 480: 90, > 360: 70, > 240: 50, > 120: 30, else 10) on the total minutes of
\* detect_sedentary, and component_analyses holds the results of the three calls.
C22_ComponentImpacts ==
    BurnoutScored =>
        LET factors   == response.result.contributing_factors
            sleep     == analyze_sleep(sensor_data, now)
            sedentary == detect_sedentary(sensor_data, now)
            hrv       == score_hrv(sensor_data, now)
        IN  /\ response.result.component_analyses
                   = [sleep |-> sleep, sedentary |-> sedentary, stress_hrv |-> hrv]
            /\ factors.sleep_impact = 1000 - sleep.sleep_score
            /\ Has(hrv, "hrv_score") => factors.stress_impact = 1000 - hrv.hrv_score
            /\ factors.sedentary_impact
                   = ImpactOfMinutes(sedentary.sedentary_duration_minutes)
            /\ sensor_data \in {Rep(Desk, n) : n \in {120, 240, 360, 480}} =>
                   factors.sedentary_impact = 100 + 200 * ((N \div 120) - 1)

\* exactly 480 sedentary minutes: the band below the highest
C22_EightHoursAtTheDesk ==
    /\ BurnoutScored
    /\ sensor_data = Rep(Desk, 480)
    /\ response.result.component_analyses.sedentary.sedentary_duration_minutes = 4800
    /\ response.result.contributing_factors.sedentary_impact = 700
    /\ response.result.contributing_factors.sleep_impact = 700
    /\ response.result.contributing_factors.stress_impact = 700

\* the timestamp of a raw record, "Unknown" for a record without one
TimestampOrUnknown(record) ==
    IF Has(record, "timestamp") THEN record.timestamp ELSE Str("Unknown")

\* C23: when a sleep period is detected, sleep_start and sleep_end are the
\* timestamps of the first and the last reading of the scored period, passed
\* through unchanged, and "Unknown" for a reading without a timestamp.
C23_TimestampsOrUnknown ==
    (Answered("analyze_sleep") /\ Detected(response.result)) =>
        LET run == EarliestLongest(SleepRuns(sensor_data))
        IN  /\ response.result.sleep_start = TimestampOrUnknown(sensor_data[run[1]])
            /\ response.result.sleep_end = TimestampOrUnknown(sensor_data[run[2]])

\* every field of every record of the sequence that an entry point converts
\* to a number is numeric
AllNumeric(data) ==
    \A i \in 1..Len(data) :
        NormalizeSleep(data[i]).exc = "" /\ NormalizeEnvironment(data[i]).exc = ""

\* no reading of the sequence has a strictly positive heart rate
NoPositiveHr(data) == \A i \in 1..Len(data) : RLe(NormalizeHrv(data[i]).hr, Q(0))

\* C24: for a non-empty sequence (of numeric readings) without a strictly
\* positive heart rate compute_burnout returns, without raising, a burnout_score
\* and a burnout_level of low, medium or high, with stress_impact 50 (score_hrv's
\* error result has no hrv_score) and stress_level "unknown"; and for a sequence
\* without a sleep period it uses sleep_score 30, so sleep_impact is 70.
C24_FallbackScores ==
    (response.fn = "compute_burnout" /\ N > 0 /\ AllNumeric(sensor_data)) =>
        LET result == response.result
        IN  /\ ~Raised(result)
            /\ NoPositiveHr(sensor_data) =>
                   /\ Has(result, "burnout_score")
                   /\ result.burnout_score \in 0..1000
                   /\ result.burnout_level \in {"low", "medium", "high"}
                   /\ ~Has(result.component_analyses.stress_hrv, "hrv_score")
                   /\ result.contributing_factors.stress_impact = 500
                   /\ result.contributing_factors.stress_level = "unknown"
            /\ ~SleepRun(sensor_data, 3) =>
                   /\ Has(result, "burnout_score")
                   /\ result.component_analyses.sleep.sleep_score = 300
                   /\ result.contributing_factors.sleep_impact = 700

\* readings with negative heart rates that are neither asleep nor scored by
\* score_hrv: both fallbacks at once
C24_NoSleepNoHeartRate ==
    /\ BurnoutScored
    /\ N = 3
    /\ sensor_data[1].HR = Num(-5)
    /\ sensor_data[1].Lux = Num(300)
    /\ response.result.contributing_factors.stress_impact = 500
    /\ response.result.contributing_factors.sleep_impact = 700
    /\ response.result.contributing_factors.stress_level = "unknown"

\* C25: whenever analyze_sleep detects a sleep period, consistency_score is
\* 100, environment_score is 70 or 100 and sleep_score is at least 52, so that
\* sleep_quality is "Good" or "OK"; "Poor" is returned only by the result for no
\* sleep period (sleep_score 30).
C25_DetectedSleepIsNotPoor ==
    Answered("analyze_sleep") =>
        LET result == response.result
        IN  /\ Detected(result) =>
                   /\ result.quality_factors.consistency_score = 1000
                   /\ result.quality_factors.environment_score \in {700, 1000}
                   /\ result.sleep_score >= 520
                   /\ result.sleep_quality \in {"Good", "OK"}
            /\ result.sleep_quality = "Poor" =>
                   /\ ~Detected(result)
                   /\ result.sleep_score = 300
                   /\ ~SleepRun(sensor_data, 3)

\* three still readings in dim light without rmssd: the lowest score of a
\* detected sleep
C25_LowestDetectedScore ==
    /\ Answered("analyze_sleep")
    /\ sensor_data = Rep(Dim, 3)
    /\ Detected(response.result)
    /\ response.result.quality_factors.environment_score = 700
    /\ response.result.sleep_score = 520
    /\ response.result.sleep_quality = "OK"

\* the sedentary periods of a scan of data that ignores the sleep set
PeriodsIgnoringSleep(data) ==
    SedentaryPeriods([i \in 1..Len(data) |-> NormalizeSedentary(data[i])], {})

\* C26: in detect_sedentary no reading satisfies both the sleep predicate
\* (lux < 10) and the sedentary predicate (lux >= 10), so the periods, and with
\* them the reported total, longest period and count, are those of a scan that
\* ignores the sleep set; only sedentary_status depends on the sleep set.
C26_SleepSetRedundant ==
    (Answered("detect_sedentary") /\ N > 0) =>
        LET normalized_data == [i \in 1..N |-> NormalizeSedentary(sensor_data[i])]
            sleep_indices   == SleepIndices(normalized_data)
            periods         == PeriodsIgnoringSleep(sensor_data)
            result          == response.result
        IN  /\ \A i \in sleep_indices : ~IsSedentary(normalized_data[i + 1])
            /\ SedentaryPeriods(normalized_data, sleep_indices) = periods
            /\ result.sedentary_duration_minutes
                   = 10 * SumMinutes(periods, 1, Len(periods))
            /\ result.longest_sedentary_period_minutes = 10 * MaxMinutes(periods)
            /\ result.sedentary_periods_count = Len(periods)

\* a sedentary period ended by sleeping readings: one period, and a status
\* that the scan without the sleep set would not give
C26_SleepAfterTheDesk ==
    /\ Answered("detect_sedentary")
    /\ sensor_data = Rep(Desk, 5) \o Rep(Rest, 5)
    /\ response.result.sedentary_periods_count = 1
    /\ response.result.sedentary_duration_minutes = 50
    /\ response.result.sedentary_status = "sleeping"
    /\ SedentaryStatus([i \in 1..N |-> NormalizeSedentary(sensor_data[i])], {})
           = "sedentary"

====
